---- MODULE Spec2Model ----
(***************************************************************************)
(* ReqRev content script: tab injection, panel lifecycle (PanelManager),   *)
(* tab-state enforcement, host-tab watcher and SPA navigation handling.    *)
(*                                                                         *)
(* One JavaScript task (event handler, timer callback, promise             *)
(* continuation) is one action.  MutationObserver callbacks are microtasks *)
(* and run at the end of the task that made the mutation, so they are part *)
(* of that action (Finish).  A content script runs at document_idle by     *)
(* default, so document.readyState is not 'loading' and                    *)
(* attemptInjection calls tryInject directly.                              *)
(***************************************************************************)
EXTENDS Integers, Sequences, FiniteSets, TLC

VARIABLES
    location,        \* window.location (pathname, as its list of segments)
    ctxValid,        \* chrome.runtime.id is readable
    boot,            \* position of the start-up IIFE: "load", "await", "done"
    lastUrl,         \* contentScript global
    lastRepoId,      \* contentScript global
    panelManager,    \* contentScript global: 0 (null) or index into managers
    managers,        \* every PanelManager constructed so far
    navBar,          \* the host rendered nav[aria-label=Repository] ul
    navChildren,     \* children of the nav bar, in DOM order
    hostTabs,        \* the host's a.UnderlineNav-item elements
    reqLink,         \* the <a> of li#reqrev-tab
    panel,           \* element(s) with id reqrev-panel-container
    contentHidden,   \* host content has style.display = 'none'
    observers,       \* MutationObservers of watchGitHubTabs, creation order
    pendingInit,     \* setTimeout(init, NAVIGATION_REINIT_DELAY) not yet fired
    initAwait,       \* init() runs suspended at await shouldShowRequirementsTab
    retry,           \* setTimeout(tryInject, ...) not yet fired: attempts so far
    deferredShow,    \* setTimeout of toggle() not yet fired: manager indices
    navs,            \* number of URL changes made by the host so far
    ticked,          \* an interval tick ran since the last show()
    mounted,         \* useRequirements: the load effect has started
    requirements,    \* useRequirements: the React state
    isLoading,       \* useRequirements: the React state
    storage,         \* chrome.storage.local[storageKey]
    calls,           \* safeExtensionCall runs suspended at await fn()
    analyses,        \* analyzeAndUpdateRequirement runs awaiting the service
    alerts,          \* number of alert(errorMessage) shown
    unhandled,       \* errors that left safeExtensionCall and were not caught
    clock            \* CRUD calls so far (stands for new Date())

pageVars == <<location, ctxValid, boot, lastUrl, lastRepoId, panelManager,
              managers, navBar, navChildren, hostTabs, reqLink, panel,
              contentHidden, observers, pendingInit, initAwait, retry,
              deferredShow, navs, ticked>>

hookVars == <<mounted, requirements, isLoading, storage, calls, analyses,
              alerts, unhandled, clock>>

vars == <<pageVars, hookVars>>

-----------------------------------------------------------------------------
(* Bounds of the model *)

MaxNavs == 2            \* URL changes by the host (Spec)
MaxLoadNavs == 1        \* URL changes by the host (SpecLoad)
MaxPendingResets == 1   \* show() calls whose resetTabs callbacks are pending
MaxPagePendingResets == 2   \* the same, for a click before the deferred show()
MaxReqOps == 2          \* addRequirement/updateRequirement/deleteRequirement calls

(* Program constants *)

MAX_INJECTION_ATTEMPTS == 10

DEFAULT_REQUIREMENT_PREFIX == "REQ-"

NULL == "null"

EXCLUDED_GITHUB_PAGES == {"settings", "notifications", "explore", "marketplace"}

PANEL_HIDDEN == "reqrev-panel-hidden"
PANEL_VISIBLE == "reqrev-panel-visible"
TAB_SELECTED == "selected"

UNDERLINE_NAV_ITEM ==
    {"UnderlineNav-item", "hx_underlinenav-item", "no-wrap",
     "js-responsive-underlinenav-item"}

BaseClassName ==
    {"UnderlineNav-item", "no-wrap", "js-responsive-underlinenav-item",
     "js-selected-navigation-item"}

(* The host page *)

Urls ==
    { <<"settings", "profile">>,
      <<"orgA", "repoA">>,
      <<"orgA", "repoA", "issues">>,
      <<"orgB", "repoB">> }

HostTabIds == {"code", "pulls"}

\* the li children of the nav bar: two tabs and the overflow menu
NavLayout == <<"code", "pulls", "more">>

StartUrl == <<"orgA", "repoA">>

REQREV == "reqrev"

-----------------------------------------------------------------------------
(* githubNavigation.ts: the regular expression ^\/([^/]+)\/([^/]+) matches  *)
(* a pathname with at least two segments.                                   *)

PathMatch(path) == Len(path) >= 2

isRepoPage(path) ==
    IF ~PathMatch(path) THEN FALSE
    ELSE path[1] \notin EXCLUDED_GITHUB_PAGES

getRepoIdentifier(path) ==
    IF ~PathMatch(path) THEN NULL
    ELSE path[1] \o "/" \o path[2]

parseRepoInfo(path) ==
    IF ~PathMatch(path) THEN NULL
    ELSE IF path[1] \in EXCLUDED_GITHUB_PAGES THEN NULL
    ELSE path[1] \o "/" \o path[2]

-----------------------------------------------------------------------------
(* The state as one record, so that handlers compose as functions.          *)
(* touched and childList are the mutation records of the running task.      *)

St ==
    [ location |-> location, ctxValid |-> ctxValid, boot |-> boot,
      lastUrl |-> lastUrl, lastRepoId |-> lastRepoId,
      panelManager |-> panelManager, managers |-> managers,
      navBar |-> navBar, navChildren |-> navChildren, hostTabs |-> hostTabs,
      reqLink |-> reqLink, panel |-> panel, contentHidden |-> contentHidden,
      observers |-> observers, pendingInit |-> pendingInit,
      initAwait |-> initAwait, retry |-> retry, deferredShow |-> deferredShow,
      navs |-> navs, ticked |-> ticked,
      touched |-> {}, childList |-> FALSE ]

Install(s) ==
    /\ location' = s.location
    /\ ctxValid' = s.ctxValid
    /\ boot' = s.boot
    /\ lastUrl' = s.lastUrl
    /\ lastRepoId' = s.lastRepoId
    /\ panelManager' = s.panelManager
    /\ managers' = s.managers
    /\ navBar' = s.navBar
    /\ navChildren' = s.navChildren
    /\ hostTabs' = s.hostTabs
    /\ reqLink' = s.reqLink
    /\ panel' = s.panel
    /\ contentHidden' = s.contentHidden
    /\ observers' = s.observers
    /\ pendingInit' = s.pendingInit
    /\ initAwait' = s.initAwait
    /\ retry' = s.retry
    /\ deferredShow' = s.deferredShow
    /\ navs' = s.navs
    /\ ticked' = s.ticked
    /\ UNCHANGED hookVars

NoLink == [cls |-> {}, ariaSelected |-> "none"]
NoPanel == [count |-> 0, cls |-> {}, repoId |-> NULL, owner |-> 0]

RECURSIVE CountOf(_, _)
CountOf(seq, x) ==
    IF seq = <<>> THEN 0
    ELSE (IF Head(seq) = x THEN 1 ELSE 0) + CountOf(Tail(seq), x)

RECURSIVE RemoveFirst(_, _)
RemoveFirst(seq, x) ==
    IF seq = <<>> THEN <<>>
    ELSE IF Head(seq) = x THEN Tail(seq)
    ELSE <<Head(seq)>> \o RemoveFirst(Tail(seq), x)

RECURSIVE IndexOf(_, _)
IndexOf(seq, x) ==
    IF seq = <<>> THEN 0
    ELSE IF Head(seq) = x THEN 1
    ELSE LET i == IndexOf(Tail(seq), x) IN IF i = 0 THEN 0 ELSE i + 1

InsertAt(seq, i, x) == SubSeq(seq, 1, i - 1) \o <<x>> \o SubSeq(seq, i, Len(seq))

-----------------------------------------------------------------------------
(* githubDOM.ts *)

getNavBar(s) == s.navBar

requirementsTabExists_never(s) == FALSE

requirementsTabExists(s) == CountOf(s.navChildren, REQREV) > 0

getRequirementsTabLink(s) == CountOf(s.navChildren, REQREV) > 0

getPanelContainer(s) == s.panel.count > 0

\* the host's a.UnderlineNav-item elements inside the nav bar (the extension's
\* own link is in the list as well and is skipped by every caller)
getAllNavTabs(s) == IF s.navBar THEN HostTabIds ELSE {}

findPullRequestsTab(children) == IndexOf(children, "pulls")

resetTabState_keepsCurrent(tab) ==
    [tab EXCEPT !.ariaSelected = "false", !.cls = BaseClassName]

resetTabState(tab) ==
    LET t1 == [tab EXCEPT !.ariaSelected = "false"]
        t2 == [t1 EXCEPT !.cls = @ \ {TAB_SELECTED}]
        t3 == [t2 EXCEPT !.ariaCurrent = FALSE]
    IN  [t3 EXCEPT !.cls = BaseClassName]

setTabSelected_attributeOnly(link, selected) ==
    [link EXCEPT !.ariaSelected = IF selected THEN "true" ELSE "false"]

setTabSelected(link, selected) ==
    IF selected
    THEN [link EXCEPT !.ariaSelected = "true", !.cls = @ \cup {TAB_SELECTED}]
    ELSE [link EXCEPT !.ariaSelected = "false", !.cls = @ \ {TAB_SELECTED}]

hideGitHubContent(s) == [s EXCEPT !.contentHidden = TRUE]

showGitHubContent(s) == [s EXCEPT !.contentHidden = FALSE]

-----------------------------------------------------------------------------
(* tabInjection.ts *)

createTabElement == [cls |-> UNDERLINE_NAV_ITEM, ariaSelected |-> "false"]

injectTab_appends(s) ==
    IF ~getNavBar(s) THEN [s |-> s, ret |-> FALSE]
    ELSE IF requirementsTabExists(s) THEN [s |-> s, ret |-> TRUE]
    ELSE [s |-> [s EXCEPT !.navChildren = Append(@, REQREV),
                          !.reqLink = createTabElement,
                          !.childList = TRUE],
          ret |-> TRUE]

injectTab(s) ==
    IF ~getNavBar(s) THEN [s |-> s, ret |-> FALSE]
    ELSE IF requirementsTabExists(s) THEN [s |-> s, ret |-> TRUE]
    ELSE LET pr == findPullRequestsTab(s.navChildren)
             kids == IF pr # 0 /\ pr < Len(s.navChildren)
                     THEN InsertAt(s.navChildren, pr + 1, REQREV)
                     ELSE Append(s.navChildren, REQREV)
         IN  [s |-> [s EXCEPT !.navChildren = kids,
                              !.reqLink = IF requirementsTabExists(s)
                                          THEN @ ELSE createTabElement,
                              !.childList = TRUE],
              ret |-> TRUE]

removeTab(s) ==
    IF ~requirementsTabExists(s) THEN s
    ELSE LET kids == RemoveFirst(s.navChildren, REQREV)
         IN  [s EXCEPT !.navChildren = kids,
                       !.reqLink = IF CountOf(kids, REQREV) > 0 THEN @ ELSE NoLink,
                       !.childList = TRUE]

-----------------------------------------------------------------------------
(* PanelManager.tsx.  m is the index of the instance (this).                *)
(* live counts the window.setInterval timers the instance created that are  *)
(* not cleared; pendingRaf / pendingTimeout count its resetTabs callbacks   *)
(* that are scheduled and have not run.                                     *)

NewManager(repoId) ==
    [ repoId |-> repoId, tabEnforcementInterval |-> FALSE, live |-> 0,
      pendingRaf |-> 0, pendingTimeout |-> 0, removed |-> FALSE ]

createPanel_unchecked(s, m) ==
    [s EXCEPT !.panel = [count |-> @.count + 1, cls |-> {PANEL_HIDDEN},
                         repoId |-> s.managers[m].repoId, owner |-> m],
              !.childList = TRUE]

createPanel(s, m) ==
    IF getPanelContainer(s) THEN s
    ELSE [s EXCEPT !.panel = [count |-> 1, cls |-> {PANEL_HIDDEN},
                              repoId |-> s.managers[m].repoId, owner |-> m],
                   !.childList = TRUE]

resetTabs(s) ==
    [s EXCEPT !.hostTabs = [t \in HostTabIds |-> resetTabState(s.hostTabs[t])],
              !.touched = @ \cup HostTabIds]

deactivateAllGitHubTabs(s, m) ==
    IF ~getNavBar(s) THEN s
    ELSE [resetTabs(s) EXCEPT !.managers[m].pendingRaf = @ + 1,
                              !.managers[m].pendingTimeout = @ + 1]

updateTabStates(s, m, isRequirementsActive) ==
    IF ~getRequirementsTabLink(s) THEN s
    ELSE LET s1 == [s EXCEPT !.reqLink = setTabSelected(@, isRequirementsActive),
                             !.touched = @ \cup {REQREV}]
         IN  IF isRequirementsActive
             THEN deactivateAllGitHubTabs(hideGitHubContent(s1), m)
             ELSE showGitHubContent(s1)

stopTabEnforcement(s, m) ==
    IF s.managers[m].tabEnforcementInterval
    THEN [s EXCEPT !.managers[m].live = @ - 1,
                   !.managers[m].tabEnforcementInterval = FALSE]
    ELSE s

enforceTabState_unguarded(s) ==
    IF getNavBar(s) THEN resetTabs(s) ELSE s

enforceTabState(s) ==
    IF getPanelContainer(s) /\ getRequirementsTabLink(s)
       /\ PANEL_VISIBLE \in s.panel.cls
    THEN IF getNavBar(s)
         THEN LET s1 == resetTabs(s)
              IN  IF TAB_SELECTED \notin s1.reqLink.cls
                  THEN [s1 EXCEPT !.reqLink = setTabSelected(@, TRUE),
                                  !.touched = @ \cup {REQREV}]
                  ELSE s1
         ELSE s
    ELSE s

startTabEnforcement_noStop(s, m) ==
    [enforceTabState(s) EXCEPT !.managers[m].live = @ + 1,
                               !.managers[m].tabEnforcementInterval = TRUE]

startTabEnforcement(s, m) ==
    LET s1 == enforceTabState(stopTabEnforcement(s, m))
    IN  [s1 EXCEPT !.managers[m].live = @ + 1,
                   !.managers[m].tabEnforcementInterval = TRUE]

show_keepsHiddenClass(s, m) ==
    IF ~getPanelContainer(s) THEN s
    ELSE LET s1 == [s EXCEPT !.panel.cls = @ \cup {PANEL_VISIBLE},
                             !.ticked = FALSE]
         IN  startTabEnforcement(updateTabStates(s1, m, TRUE), m)

show(s, m) ==
    IF ~getPanelContainer(s) THEN s
    ELSE LET s1 == [s EXCEPT !.panel.cls = (@ \ {PANEL_HIDDEN}) \cup {PANEL_VISIBLE},
                             !.ticked = FALSE]
         IN  startTabEnforcement(updateTabStates(s1, m, TRUE), m)

hide(s, m) ==
    IF ~getPanelContainer(s) THEN s
    ELSE LET s1 == [s EXCEPT !.panel.cls = (@ \ {PANEL_VISIBLE}) \cup {PANEL_HIDDEN},
                             !.ticked = FALSE]
         IN  stopTabEnforcement(updateTabStates(s1, m, FALSE), m)

toggle_createsOnly(s, m) ==
    IF ~getPanelContainer(s) THEN createPanel(s, m)
    ELSE IF PANEL_HIDDEN \in s.panel.cls THEN show(s, m)
    ELSE hide(s, m)

toggle(s, m) ==
    IF ~getPanelContainer(s)
    THEN [createPanel(s, m) EXCEPT !.deferredShow = Append(@, m)]
    ELSE IF PANEL_HIDDEN \in s.panel.cls THEN show(s, m)
    ELSE hide(s, m)

handleGitHubTabClick(s, m) ==
    IF getPanelContainer(s) /\ PANEL_VISIBLE \in s.panel.cls
    THEN hide(s, m)
    ELSE s

\* target is a host tab: the extension's own link is never target !== reqrevTabLink
handleOtherTabActivation(s, target) ==
    IF getRequirementsTabLink(s) /\ getPanelContainer(s)
       /\ PANEL_VISIBLE \in s.panel.cls
       /\ TAB_SELECTED \in s.hostTabs[target].cls
    THEN [s EXCEPT !.hostTabs[target] = resetTabState(@),
                   !.touched = @ \cup {target}]
    ELSE s

watchGitHubTabs_noObserver(s, m) == s

watchGitHubTabs(s, m) ==
    IF ~getNavBar(s) THEN s
    ELSE [s EXCEPT !.observers = Append(@, m)]

remove(s, m) ==
    LET s1 == stopTabEnforcement(s, m)
        s2 == IF getPanelContainer(s1)
              THEN [s1 EXCEPT !.panel = IF @.count > 1
                                        THEN [@ EXCEPT !.count = @ - 1]
                                        ELSE NoPanel,
                              !.childList = TRUE]
              ELSE s1
    IN  [s2 EXCEPT !.managers[m].removed = TRUE]

TAB_NAMES_REQUIREMENTS == "reqrev-requirements"

ObserverCallbackOwnLink_noAttributeTest(s, m) ==
    IF TAB_SELECTED \in s.reqLink.cls THEN handleGitHubTabClick(s, m) ELSE s

(* The same callback for a class-mutation record whose target is the        *)
(* extension's own link: its data-tab-item is TAB_NAMES.REQUIREMENTS and    *)
(* handleOtherTabActivation finds target === reqrevTabLink.                 *)
ObserverCallbackOwnLink(s, m) ==
    IF TAB_SELECTED \in s.reqLink.cls
       /\ TAB_NAMES_REQUIREMENTS # "reqrev-requirements"
    THEN handleGitHubTabClick(s, m)
    ELSE s

(* The observer callback of watchGitHubTabs, for one observer (created by   *)
(* manager m) and one class-mutation record with the given target.          *)
ObserverCallback(s, m, target) ==
    LET s1 == IF TAB_SELECTED \in s.hostTabs[target].cls
              THEN handleGitHubTabClick(s, m)
              ELSE s
    IN  handleOtherTabActivation(s1, target)

-----------------------------------------------------------------------------
(* Microtasks at the end of a task.  Observers are notified in creation     *)
(* order; each watchGitHubTabs observer walks its class-mutation records.   *)
(* The records a callback itself produces (hide() touching the extension's  *)
(* link, a reset tab) find no selected host tab, so one round is the whole  *)
(* effect.                                                                  *)

HostTabOrder == <<"code", "pulls">>

RECURSIVE RunRecords(_, _, _, _)
RunRecords(s, m, targets, i) ==
    IF i > Len(HostTabOrder)
    THEN IF REQREV \in targets /\ getRequirementsTabLink(s)
         THEN ObserverCallbackOwnLink(s, m)
         ELSE s
    ELSE IF HostTabOrder[i] \in targets
         THEN RunRecords(ObserverCallback(s, m, HostTabOrder[i]), m, targets, i + 1)
         ELSE RunRecords(s, m, targets, i + 1)

RECURSIVE RunObservers(_, _, _)
RunObservers(s, obs, targets) ==
    IF obs = <<>> THEN s
    ELSE RunObservers(RunRecords(s, Head(obs), targets, 1), Tail(obs), targets)

navCallback_ignoresIdentity(s) ==
    IF s.location = s.lastUrl THEN s
    ELSE LET s2 == [s EXCEPT !.lastUrl = s.location,
                             !.lastRepoId = getRepoIdentifier(s.location)]
             s3 == IF s2.panelManager # 0
                   THEN [remove(s2, s2.panelManager) EXCEPT !.panelManager = 0]
                   ELSE s2
             s4 == removeTab(s3)
         IN  IF isRepoPage(s4.location)
             THEN [s4 EXCEPT !.pendingInit = @ + 1]
             ELSE s4

(* contentScript.tsx: the callback of handleNavigation's observer *)
navCallback(s) ==
    LET currentUrl == s.location
        currentRepoId == getRepoIdentifier(s.location)
    IN  IF currentUrl = s.lastUrl THEN s
        ELSE LET s1 == [s EXCEPT !.lastUrl = currentUrl]
             IN  IF currentRepoId = s1.lastRepoId THEN s1
                 ELSE LET s2 == [s1 EXCEPT !.lastRepoId = currentRepoId]
                          s3 == IF s2.panelManager # 0
                                THEN [remove(s2, s2.panelManager)
                                        EXCEPT !.panelManager = 0]
                                ELSE s2
                          s4 == removeTab(s3)
                      IN  IF isRepoPage(s4.location)
                          THEN [s4 EXCEPT !.pendingInit = @ + 1]
                          ELSE s4

Finish(s) ==
    LET s1 == IF s.touched # {}
              THEN RunObservers(s, s.observers, s.touched)
              ELSE s
    IN  IF s1.childList /\ s1.boot = "done" THEN navCallback(s1) ELSE s1

-----------------------------------------------------------------------------
(* contentScript.tsx *)

tryInject(s, attempts) ==
    LET n == attempts + 1
    IN  IF getNavBar(s) /\ s.panelManager # 0
        THEN LET r == injectTab(s)
             IN  IF r.ret
                 THEN watchGitHubTabs(createPanel(r.s, s.panelManager),
                                      s.panelManager)
                 ELSE r.s
        ELSE IF n < MAX_INJECTION_ATTEMPTS
             THEN [s EXCEPT !.retry = Append(@, n)]
             ELSE s

attemptInjection(s) == tryInject(s, 0)

initStart_unguarded(s, isBoot) ==
    [s EXCEPT !.initAwait =
         Append(@, [repoId |-> getRepoIdentifier(s.location), boot |-> isBoot])]

\* init() up to its await: the run is suspended with the repoId it captured
initStart(s, isBoot) ==
    IF ~s.ctxValid THEN s
    ELSE IF ~isRepoPage(s.location) THEN s
    ELSE LET repoId == getRepoIdentifier(s.location)
             repoInfo == parseRepoInfo(s.location)
         IN  IF repoId = NULL \/ repoInfo = NULL THEN s
             ELSE [s EXCEPT !.initAwait =
                       Append(@, [repoId |-> repoId, boot |-> isBoot])]

\* init() after its await, for the suspended run r
initResume(s, r, hasPermissions) ==
    IF ~hasPermissions THEN s
    ELSE attemptInjection(
             [s EXCEPT !.managers = Append(@, NewManager(r.repoId)),
                       !.panelManager = Len(s.managers) + 1])

\* the window.setInterval callback with the microtasks that follow it
intervalCallback(s) ==
    LET s1 == enforceTabState(s)
    IN  Finish([s1 EXCEPT !.ticked = getPanelContainer(s1)
                                      /\ PANEL_VISIBLE \in s1.panel.cls])

\* the host adds its selected marker to its tab t; the watchGitHubTabs
\* observers run as microtasks of the same task
hostSelectsTab(s, t) ==
    Finish([s EXCEPT !.hostTabs[t].cls = @ \cup {TAB_SELECTED},
                     !.hostTabs[t].ariaCurrent = TRUE,
                     !.touched = {t}])

RECURSIVE SumRaf(_)
SumRaf(ms) == IF ms = <<>> THEN 0 ELSE Head(ms).pendingRaf + SumRaf(Tail(ms))

RECURSIVE SumTimeout(_)
SumTimeout(ms) ==
    IF ms = <<>> THEN 0 ELSE Head(ms).pendingTimeout + SumTimeout(Tail(ms))

DropAt(seq, i) == SubSeq(seq, 1, i - 1) \o SubSeq(seq, i + 1, Len(seq))

-----------------------------------------------------------------------------
(* extensionContext.ts and useRequirements.ts.  A requirement is its id,    *)
(* its description and createdAt (the value of clock when it was made).     *)
(* An error message is the list of its words.                               *)

INVALIDATED == <<"Extension", "context", "invalidated">>

includes_exact(message, search) == message = search

\* String.prototype.includes
includes(message, search) ==
    \E i \in 1..(Len(message) - Len(search) + 1) :
        SubSeq(message, i, i + Len(search) - 1) = search

\* what fn() can end with: the values thrown are Error objects or not
ContextError ==
    [isError |-> TRUE, message |-> INVALIDATED \o <<".">>]
WrappedContextError ==
    [isError |-> TRUE,
     message |-> <<"Error", "in", "invocation:">> \o INVALIDATED]
QuotaError ==
    [isError |-> TRUE, message |-> <<"QUOTA_BYTES", "quota", "exceeded">>]
ThrownText ==
    [isError |-> FALSE, message |-> INVALIDATED]

NoError == [isError |-> FALSE, message |-> <<>>]

Resolved == [type |-> "resolve", error |-> NoError]
Rejected(e) == [type |-> "reject", error |-> e]

FnOutcomes ==
    {Resolved, Rejected(ContextError), Rejected(WrappedContextError),
     Rejected(QuotaError), Rejected(ThrownText)}

\* the state of the hook as one record
Hk ==
    [ ctxValid |-> ctxValid, mounted |-> mounted,
      requirements |-> requirements, isLoading |-> isLoading,
      storage |-> storage, calls |-> calls, analyses |-> analyses,
      alerts |-> alerts, unhandled |-> unhandled, clock |-> clock ]

InstallHook(h) ==
    /\ mounted' = h.mounted
    /\ requirements' = h.requirements
    /\ isLoading' = h.isLoading
    /\ storage' = h.storage
    /\ calls' = h.calls
    /\ analyses' = h.analyses
    /\ alerts' = h.alerts
    /\ unhandled' = h.unhandled
    /\ clock' = h.clock
    /\ UNCHANGED pageVars

HookInit(stored) ==
    /\ mounted = FALSE
    /\ requirements = <<>>
    /\ isLoading = TRUE
    /\ storage = stored
    /\ calls = <<>>
    /\ analyses = <<>>
    /\ alerts = 0
    /\ unhandled = {}
    /\ clock = 0

REQ(n) == DEFAULT_REQUIREMENT_PREFIX \o ToString(n)

MaxReqNum == 3 + MaxReqOps + 1

\* req.id.match(/REQ-(\d+)/) with parseInt, 0 without a match
ReqNum(id) ==
    IF \E n \in 0..MaxReqNum : id = REQ(n)
    THEN CHOOSE n \in 0..MaxReqNum : id = REQ(n)
    ELSE 0

RECURSIVE MaxNum(_)
MaxNum(reqs) ==
    IF reqs = <<>> THEN 0
    ELSE LET rest == MaxNum(Tail(reqs))
             num == ReqNum(Head(reqs).id)
         IN  IF num > rest THEN num ELSE rest

getNextId_byCount(reqs) == REQ(Len(reqs) + 1)

getNextId(reqs) ==
    IF Len(reqs) = 0 THEN REQ(1) ELSE REQ(MaxNum(reqs) + 1)

createSampleRequirements ==
    << [id |-> "REQ-1", description |-> "sample", createdAt |-> 0],
       [id |-> "REQ-2", description |-> "sample", createdAt |-> 0],
       [id |-> "REQ-3", description |-> "sample", createdAt |-> 0] >>

isExtensionContextValid(h) == h.ctxValid

\* a value of chrome.storage.local[storageKey]: an array, or not there
Stored(list) == [isArray |-> TRUE, list |-> list]
Undefined == [isArray |-> FALSE, list |-> <<>>]

\* the result of safeExtensionCall: null, or what fn() resolved to
Null == [isNull |-> TRUE, value |-> Undefined]
Value(v) == [isNull |-> FALSE, value |-> v]

Call(kind, list, analyze) == [kind |-> kind, list |-> list, analyze |-> analyze]

RECURSIVE safeExtensionCall(_, _)
RECURSIVE Continue(_, _, _)

\* the caller of safeExtensionCall after its await, with the result
Continue(h, call, result) ==
    CASE call.kind = "get" ->
            \* loadRequirements
            IF result.isNull THEN [h EXCEPT !.isLoading = FALSE]
            ELSE IF result.value.isArray
                 THEN [h EXCEPT !.requirements = result.value.list,
                                !.isLoading = FALSE]
                 ELSE safeExtensionCall(
                          h, Call("seed", createSampleRequirements, NULL))
      [] call.kind = "seed" ->
            IF ~result.isNull
            THEN [h EXCEPT !.requirements = call.list, !.isLoading = FALSE]
            ELSE [h EXCEPT !.isLoading = FALSE]
      [] call.kind = "save" ->
            \* saveRequirements, then the rest of updateRequirement
            LET h1 == IF ~result.isNull
                      THEN [h EXCEPT !.requirements = call.list]
                      ELSE h
            IN  IF call.analyze # NULL
                THEN [h1 EXCEPT !.analyses = Append(@, call.analyze)]
                ELSE h1
      [] OTHER -> h

safeExtensionCall_unchecked(h, call) == [h EXCEPT !.calls = Append(@, call)]

\* safeExtensionCall up to its await: fn() is called only with a valid context
safeExtensionCall(h, call) ==
    IF ~isExtensionContextValid(h)
    THEN Continue([h EXCEPT !.alerts = @ + 1], call, Null)
    ELSE [h EXCEPT !.calls = Append(@, call)]

\* what fn() of the call does when it resolves
FnEffect(h, call) ==
    IF call.kind = "get" THEN h ELSE [h EXCEPT !.storage = Stored(call.list)]

FnValue(h, call) ==
    IF call.kind = "get" THEN h.storage ELSE Undefined

\* the catch block of safeExtensionCall
Recoverable(e) == e.isError /\ includes(e.message, INVALIDATED)

\* safeExtensionCall after its await, for the oldest suspended run
safeExtensionCallSettle(h, outcome) ==
    LET call == Head(h.calls)
        h1 == [h EXCEPT !.calls = Tail(@)]
    IN  IF outcome.type = "resolve"
        THEN Continue(FnEffect(h1, call), call, Value(FnValue(h1, call)))
        ELSE IF Recoverable(outcome.error)
             THEN Continue([h1 EXCEPT !.alerts = @ + 1], call, Null)
             ELSE [h1 EXCEPT !.unhandled = @ \cup {outcome.error}]

loadRequirements(h) ==
    safeExtensionCall([h EXCEPT !.mounted = TRUE], Call("get", <<>>, NULL))

saveRequirements(h, updatedRequirements, analyze) ==
    safeExtensionCall(h, Call("save", updatedRequirements, analyze))

\* description is NULL when the argument is left out
addRequirement(h, description) ==
    LET now == h.clock + 1
        newReq == [id |-> getNextId(h.requirements),
                   description |-> IF description = NULL THEN "" ELSE description,
                   createdAt |-> now]
        updated == Append(h.requirements, newReq)
        h1 == saveRequirements([h EXCEPT !.clock = now], updated, NULL)
    IN  IF description # NULL /\ description # ""
        THEN [h1 EXCEPT !.analyses = Append(@, newReq.id)]
        ELSE h1

updateRequirement(h, id, description) ==
    LET updated == [i \in 1..Len(h.requirements) |->
                       IF h.requirements[i].id = id
                       THEN [h.requirements[i] EXCEPT !.description = description]
                       ELSE h.requirements[i]]
        found == \E i \in 1..Len(updated) : updated[i].id = id
    IN  saveRequirements([h EXCEPT !.clock = @ + 1], updated,
                         IF found /\ description # "" THEN id ELSE NULL)

RECURSIVE FilterOut(_, _)
FilterOut(reqs, id) ==
    IF reqs = <<>> THEN <<>>
    ELSE IF Head(reqs).id = id THEN FilterOut(Tail(reqs), id)
    ELSE <<Head(reqs)>> \o FilterOut(Tail(reqs), id)

deleteRequirement(h, id) ==
    saveRequirements([h EXCEPT !.clock = @ + 1],
                     FilterOut(h.requirements, id), NULL)

\* analyzeAndUpdateRequirement after its await: with a result the state
\* updater maps the current list (flags are not modelled) and saves it
analysisCompletes(h, hasResult) ==
    LET h1 == [h EXCEPT !.analyses = Tail(@)]
    IN  IF hasResult
        THEN safeExtensionCall(h1, Call("analysis", h1.requirements, NULL))
        ELSE h1

-----------------------------------------------------------------------------
(* Initial state: the content script's globals are initialised and the      *)
(* start-up IIFE has not run.  The host shows its Code tab as current.      *)

HostTabPlain ==
    [cls |-> BaseClassName, ariaSelected |-> "none", ariaCurrent |-> FALSE]

HostTabCurrent ==
    [cls |-> BaseClassName \cup {TAB_SELECTED}, ariaSelected |-> "none",
     ariaCurrent |-> TRUE]

HostTabsRendered ==
    [t \in HostTabIds |-> IF t = "code" THEN HostTabCurrent ELSE HostTabPlain]

PageInit(nav) ==
    /\ location = StartUrl
    /\ ctxValid = TRUE
    /\ boot = "load"
    /\ lastUrl = location
    /\ lastRepoId = getRepoIdentifier(location)
    /\ panelManager = 0
    /\ managers = <<>>
    /\ navBar = nav
    /\ navChildren = IF navBar THEN NavLayout ELSE <<>>
    /\ hostTabs = IF navBar THEN HostTabsRendered
                  ELSE [t \in HostTabIds |-> HostTabPlain]
    /\ reqLink = NoLink
    /\ panel = NoPanel
    /\ contentHidden = FALSE
    /\ observers = <<>>
    /\ pendingInit = 0
    /\ initAwait = <<>>
    /\ retry = <<>>
    /\ deferredShow = <<>>
    /\ navs = 0
    /\ ticked = FALSE

\* the panel's React component is not mounted yet
InitWith(nav) == PageInit(nav) /\ HookInit(Undefined)

\* the host rendered its navigation before the content script runs
Init == InitWith(TRUE)

\* the content script runs before the host rendered its navigation
InitLoad == InitWith(FALSE)

-----------------------------------------------------------------------------
(* Tasks of the extension *)

\* (async () => { await init(); handleNavigation(); })()
Boot ==
    /\ boot = "load"
    /\ LET s1 == initStart(St, TRUE)
       IN  Install([s1 EXCEPT !.boot = IF s1.initAwait = initAwait
                                       THEN "done" ELSE "await"])

\* the setTimeout callback of handleNavigation
InitTimerFires ==
    /\ pendingInit > 0
    /\ Install(initStart([St EXCEPT !.pendingInit = @ - 1], FALSE))

\* shouldShowRequirementsTab resolves and init() continues; for the start-up
\* run, handleNavigation() follows
PermissionResolves ==
    \E i \in 1..Len(initAwait), hasPermissions \in BOOLEAN :
        LET r == initAwait[i]
            s1 == initResume([St EXCEPT !.initAwait = DropAt(@, i)], r,
                             hasPermissions)
            s2 == Finish(s1)
        IN  Install(IF r.boot THEN [s2 EXCEPT !.boot = "done"] ELSE s2)

\* a pending setTimeout(tryInject) fires (equal delays: first in, first out)
RetryFires ==
    /\ retry # <<>>
    /\ Install(Finish(tryInject([St EXCEPT !.retry = Tail(@)], Head(retry))))

\* click on the injected tab: e.preventDefault(); panelManager!.toggle()
\* (with panelManager null the handler throws and nothing changes)
UserClicksTab ==
    /\ requirementsTabExists(St)
    /\ panelManager # 0
    /\ (~getPanelContainer(St) \/ PANEL_HIDDEN \in panel.cls) =>
          /\ SumRaf(managers) + Len(deferredShow) < MaxPendingResets
          /\ SumTimeout(managers) + Len(deferredShow) < MaxPendingResets
    /\ Install(Finish(toggle(St, panelManager)))

\* the setTimeout callback of toggle(): show() if the container is there
deferredShowCallback(s, m) ==
    IF getPanelContainer(s) THEN show(s, m) ELSE s

\* a pending setTimeout of toggle() fires (equal delays: first in, first out)
DeferredShowFires ==
    /\ deferredShow # <<>>
    /\ Install(Finish(deferredShowCallback([St EXCEPT !.deferredShow = Tail(@)],
                                           Head(deferredShow))))

\* the window.setInterval callback of startTabEnforcement
Tick ==
    \E m \in 1..Len(managers) :
        /\ managers[m].live > 0
        /\ Install(intervalCallback(St))

\* requestAnimationFrame(resetTabs)
RafFires ==
    \E m \in 1..Len(managers) :
        /\ managers[m].pendingRaf > 0
        /\ Install(Finish(resetTabs([St EXCEPT !.managers[m].pendingRaf = @ - 1])))

\* setTimeout(resetTabs, TAB_RESET_DELAY)
ResetTimeoutFires ==
    \E m \in 1..Len(managers) :
        /\ managers[m].pendingTimeout > 0
        /\ Install(Finish(resetTabs([St EXCEPT !.managers[m].pendingTimeout = @ - 1])))

\* a childList mutation anywhere in the document reaches handleNavigation's
\* observer while the URL differs from lastUrl
DomMutationObserved ==
    /\ boot = "done"
    /\ location # lastUrl
    /\ Install(navCallback(St))

-----------------------------------------------------------------------------
(* Tasks of the host page and the browser *)

\* history.pushState / popstate: the URL changes, the DOM not yet.  The
\* script reads location for lastUrl and starts init() in one task, so the
\* first change comes after Boot.
PushState(u) ==
    /\ boot # "load"
    /\ u # location
    /\ Install([St EXCEPT !.location = u, !.navs = @ + 1])

HostPushState ==
    \E u \in Urls : navs < MaxNavs /\ PushState(u)

HostPushStateLoad ==
    \E u \in Urls : navs < MaxLoadNavs /\ PushState(u)

HostRendersNav ==
    /\ ~navBar
    /\ Install(Finish([St EXCEPT !.navBar = TRUE,
                                 !.navChildren = NavLayout,
                                 !.hostTabs = HostTabsRendered,
                                 !.childList = TRUE]))

HostSelectsTab ==
    \E t \in HostTabIds :
        /\ navBar
        /\ TAB_SELECTED \notin hostTabs[t].cls
        /\ Install(hostSelectsTab(St, t))

HostDeselectsTab ==
    \E t \in HostTabIds :
        /\ navBar
        /\ TAB_SELECTED \in hostTabs[t].cls
        /\ Install(Finish([St EXCEPT !.hostTabs[t].cls = @ \ {TAB_SELECTED},
                                     !.hostTabs[t].ariaCurrent = FALSE,
                                     !.touched = {t}]))

\* the extension is reloaded: chrome.runtime.id is no longer readable
ContextInvalidated ==
    /\ ctxValid
    /\ Install([St EXCEPT !.ctxValid = FALSE])

\* the host re-renders its main content, which held the panel container
HostRemovesPanel ==
    /\ getPanelContainer(St)
    /\ Install(Finish([St EXCEPT !.panel = NoPanel, !.childList = TRUE]))

Tasks ==
    \/ Boot
    \/ InitTimerFires
    \/ PermissionResolves
    \/ UserClicksTab
    \/ Tick
    \/ RafFires
    \/ ResetTimeoutFires
    \/ DomMutationObserved
    \/ HostSelectsTab
    \/ HostDeselectsTab

Next == Tasks \/ HostPushState

NextLoad == Tasks \/ HostPushStateLoad \/ RetryFires \/ HostRendersNav

\* the host re-renders its navigation list without the injected li
HostRemovesTab ==
    /\ requirementsTabExists(St)
    /\ Install(Finish([St EXCEPT
                          !.navChildren = RemoveFirst(@, REQREV),
                          !.reqLink = NoLink,
                          !.childList = TRUE]))

\* a second click on the tab while the deferred show() of toggle() is pending:
\* the container is there and Hidden, so this toggle() calls show() as well
UserClicksTabAgain ==
    /\ requirementsTabExists(St)
    /\ panelManager # 0
    /\ deferredShow # <<>>
    /\ getPanelContainer(St) /\ PANEL_HIDDEN \in panel.cls
    /\ SumRaf(managers) + Len(deferredShow) < MaxPagePendingResets
    /\ SumTimeout(managers) + Len(deferredShow) < MaxPagePendingResets
    /\ Install(Finish(toggle(St, panelManager)))

\* enforceTabState() ends with an exception after it reset the first k host
\* tabs (k = 0: a failing DOM query before any change)
enforceTabState_throws(s, k) ==
    IF getPanelContainer(s) /\ getRequirementsTabLink(s)
       /\ PANEL_VISIBLE \in s.panel.cls /\ getNavBar(s)
    THEN [s EXCEPT !.hostTabs =
                       [t \in HostTabIds |->
                           IF IndexOf(HostTabOrder, t) <= k
                           THEN resetTabState(s.hostTabs[t])
                           ELSE s.hostTabs[t]],
                   !.touched = @ \cup {t \in HostTabIds :
                                           IndexOf(HostTabOrder, t) <= k}]
    ELSE s

intervalCallback_throwsAndClears(s, m, k) ==
    Finish([enforceTabState_throws(s, k) EXCEPT
                !.managers[m].live = 0,
                !.managers[m].tabEnforcementInterval = FALSE])

\* the window.setInterval callback of manager m ends with an uncaught
\* exception: the error is reported and the interval stays scheduled
intervalCallback_throws(s, m, k) ==
    Finish(enforceTabState_throws(s, k))

TickFails ==
    \E m \in 1..Len(managers), k \in 0..(Len(HostTabOrder) - 1) :
        /\ managers[m].live > 0
        /\ Install(intervalCallback_throws(St, m, k))

NextPage ==
    \/ Boot
    \/ TickFails
    \/ UserClicksTabAgain
    \/ PermissionResolves
    \/ UserClicksTab
    \/ DeferredShowFires
    \/ Tick
    \/ RafFires
    \/ ResetTimeoutFires
    \/ HostSelectsTab
    \/ HostDeselectsTab
    \/ HostRemovesPanel
    \/ HostRemovesTab
    \/ ContextInvalidated

-----------------------------------------------------------------------------
(* Tasks of the requirements hook (RequirementsPanel mounted in the panel) *)

\* the list a previous session left in storage
StoredBefore ==
    Stored(<< [id |-> "REQ-1", description |-> "sample", createdAt |-> 0],
              [id |-> "REQ-3", description |-> "sample", createdAt |-> 0] >>)

\* useEffect: loadRequirements()
HookMounts ==
    /\ ~mounted
    /\ InstallHook(loadRequirements(Hk))

\* what a chrome.storage.local call ends with: it resolves only while the
\* context is valid and fails with the runtime's error only after that
StorageOutcomes(valid) ==
    IF valid THEN {Resolved, Rejected(QuotaError)}
    ELSE {Rejected(ContextError), Rejected(QuotaError)}

\* the promise of fn() settles
StorageCallSettles ==
    \E outcome \in StorageOutcomes(ctxValid) :
        /\ calls # <<>>
        /\ InstallHook(safeExtensionCallSettle(Hk, outcome))

Ready == mounted /\ ~isLoading /\ clock < MaxReqOps

ListedIds == {requirements[i].id : i \in 1..Len(requirements)}

UserAdds ==
    \E description \in {NULL, "text"} :
        /\ Ready
        /\ InstallHook(addRequirement(Hk, description))

UserUpdates ==
    \E id \in ListedIds, description \in {"", "text"} :
        /\ Ready
        /\ InstallHook(updateRequirement(Hk, id, description))

UserDeletes ==
    \E id \in ListedIds :
        /\ Ready
        /\ InstallHook(deleteRequirement(Hk, id))

AnalysisCompletes ==
    \E hasResult \in BOOLEAN :
        /\ analyses # <<>>
        /\ InstallHook(analysisCompletes(Hk, hasResult))

NextReq ==
    \/ HookMounts
    \/ StorageCallSettles
    \/ UserAdds
    \/ UserUpdates
    \/ UserDeletes
    \/ AnalysisCompletes
    \/ ContextInvalidated

\* storage is empty (first use) or holds the list of an earlier session
InitReq ==
    /\ PageInit(TRUE)
    /\ \E stored \in {Undefined, StoredBefore} : HookInit(stored)

\* the requirements hook of one mounted panel
SpecReq == InitReq /\ [][NextReq]_vars

\* the page with its navigation rendered, across navigations
Spec == Init /\ [][Next]_vars

\* the page still loading: injection retries, then navigation
SpecLoad == InitLoad /\ [][NextLoad]_vars

\* what RetryFires does to the timer queue: the first pending attempt is
\* consumed and, if it fails before the last attempt, its successor is queued
\* (no other action removes an entry, so these are the RetryFires steps)
RetryTimerStep ==
    /\ retry # <<>>
    /\ retry' \in {Tail(retry), Append(Tail(retry), Head(retry) + 1)}

\* a pending setTimeout(tryInject) does fire
SpecLoadFair == SpecLoad /\ WF_retry(RetryTimerStep)

\* one page: the host re-renders its content, the extension may be reloaded
SpecPage == Init /\ [][NextPage]_vars

-----------------------------------------------------------------------------
(* Properties *)

Visible(s) == getPanelContainer(s) /\ PANEL_VISIBLE \in s.panel.cls

Hidden(s) == getPanelContainer(s) /\ PANEL_HIDDEN \in s.panel.cls

TimerRunning(s) == \E m \in 1..Len(s.managers) : s.managers[m].live > 0

SelectedHostTabs(s) == {t \in HostTabIds : TAB_SELECTED \in s.hostTabs[t].cls}

\* C1: whenever the panel container exists it carries exactly one of the
\* classes reqrev-panel-hidden and reqrev-panel-visible: never both, never
\* neither.
PanelClassInvariant ==
    getPanelContainer(St) =>
        /\ panel.cls \subseteq {PANEL_HIDDEN, PANEL_VISIBLE}
        /\ (PANEL_HIDDEN \in panel.cls) # (PANEL_VISIBLE \in panel.cls)

\* on a page reached by navigation the panel was shown and the timer fired
PanelClassWitness ==
    /\ Visible(St)
    /\ ticked
    /\ PANEL_HIDDEN \notin panel.cls
    /\ Len(managers) >= 2

AdversarialHostScenario ==
    \A t \in HostTabIds :
        ( /\ Visible(St)
          /\ observers # <<>>
          /\ TimerRunning(St)
          /\ TAB_SELECTED \notin hostTabs[t].cls ) =>
            LET s1 == hostSelectsTab(St, t)
                s2 == intervalCallback(s1)
            IN  /\ s2.hostTabs[t].cls = BaseClassName
                /\ TAB_SELECTED \in s2.reqLink.cls
                /\ Visible(s2)

\* C4: a PanelManager's reconciliation interval is active only while the
\* panel is Visible: whenever the container is Hidden, was removed by that
\* manager's remove(), or is absent, its tabEnforcementInterval is null.
IntervalOnlyWhileVisible ==
    \A m \in 1..Len(managers) :
        (~Visible(St) \/ managers[m].removed) =>
            ~managers[m].tabEnforcementInterval

\* C5: in no reachable state are two reconciliation intervals active at once.
SingleReconciliationInterval ==
    Cardinality({m \in 1..Len(managers) : managers[m].live > 0}) <= 1

\* C6: after the teardown (remove() followed by removeTab()) no interval, no
\* deferred resetTabs callback and no watchGitHubTabs observer of the
\* torn-down PanelManager is left.
TeardownCompleteness ==
    \A m \in 1..Len(managers) :
        managers[m].removed =>
            /\ managers[m].live = 0
            /\ managers[m].pendingRaf = 0
            /\ managers[m].pendingTimeout = 0
            /\ CountOf(observers, m) = 0

\* a torn-down PanelManager with resetTabs callbacks still queued
RemovedWithPendingResets ==
    \E m \in 1..Len(managers) :
        /\ managers[m].removed
        /\ managers[m].pendingRaf > 0
        /\ managers[m].pendingTimeout > 0

\* the navigation observer is about to see a change to another, managed page
IdentityChangePending ==
    /\ boot = "done"
    /\ location # lastUrl
    /\ getRepoIdentifier(location) # lastRepoId
    /\ isRepoPage(location)

\* the teardown half of C7: old tab and panel removed, old PanelManager
\* discarded, one init() scheduled
NavigationTeardown ==
    IdentityChangePending =>
        LET s == navCallback(St)
        IN  /\ ~requirementsTabExists(s)
            /\ ~getPanelContainer(s)
            /\ s.panelManager = 0
            /\ s.lastRepoId = getRepoIdentifier(location)
            /\ s.pendingInit = pendingInit + 1

\* the construction half of C7: an init() run scheduled by the navigation
\* handler, resuming with permission after every URL change was observed,
\* leaves a fresh PanelManager, a tab and a panel bound to the identity of
\* the page
NavigationConstruction ==
    \A i \in 1..Len(initAwait) :
        (~initAwait[i].boot /\ location = lastUrl /\ navBar) =>
            LET s == Finish(initResume([St EXCEPT !.initAwait = DropAt(@, i)],
                                       initAwait[i], TRUE))
                pm == s.panelManager
            IN  /\ pm = Len(managers) + 1
                /\ s.managers[pm] = NewManager(s.lastRepoId)
                /\ requirementsTabExists(s)
                /\ getPanelContainer(s)
                /\ s.panel.repoId = s.lastRepoId
                /\ s.panel.owner = pm

\* C7: when the navigation observer sees the URL change to a different,
\* managed identity, the controller removes the old tab and panel, discards
\* the old PanelManager, and after the settle delay constructs a fresh
\* PanelManager, tab and panel bound to the new identity.
NavigationReinit == NavigationTeardown /\ NavigationConstruction

\* C8: when the URL changed and the org/repo identity did not, the
\* navigation handler only updates lastUrl: tab, panel, visibility,
\* PanelManager, its timer and the scheduled init() runs are unchanged.
SameIdentityFrame ==
    ( /\ boot = "done"
      /\ location # lastUrl
      /\ getRepoIdentifier(location) = lastRepoId ) =>
        navCallback(St) = [St EXCEPT !.lastUrl = location]

\* a sub-tab URL of the same repository is about to be observed while the
\* panel is Visible and its timer runs
SameIdentityWitness ==
    /\ boot = "done"
    /\ location # lastUrl
    /\ getRepoIdentifier(location) = lastRepoId
    /\ Visible(St)
    /\ panelManager # 0
    /\ managers[panelManager].tabEnforcementInterval
    /\ navCallback(St).lastUrl = location

\* C9: injectTab called twice in a row on a page with a nav bar leaves
\* exactly one tab element; the second call returns true and changes
\* nothing.
InjectTabIdempotent ==
    getNavBar(St) =>
        LET r1 == injectTab(St)
            r2 == injectTab(r1.s)
        IN  /\ r1.ret
            /\ CountOf(r2.s.navChildren, REQREV) = 1
            /\ r2.ret
            /\ r2.s = r1.s

\* the first of the two calls inserts the tab, after the Pull requests tab
InjectTabWitness ==
    /\ getNavBar(St)
    /\ ~requirementsTabExists(St)
    /\ boot = "done"
    /\ injectTab(St).s.navChildren = <<"code", "pulls", REQREV, "more">>
    /\ injectTab(injectTab(St).s).ret

\* C10: in every reachable state there is at most one tab element and at
\* most one panel container, also after overlapping injection retry chains
\* and repeated init() runs.
AtMostOneTabAndPanel ==
    /\ CountOf(navChildren, REQREV) <= 1
    /\ panel.count <= 1

\* two retry chains ran to success on the same page
AtMostOneWitness ==
    /\ Len(observers) >= 2
    /\ observers[Len(observers)] = observers[Len(observers) - 1]
    /\ CountOf(navChildren, REQREV) = 1
    /\ panel.count = 1

\* C11: while the extension context is invalid, toggle() creates no panel
\* container (neither toggle() nor the interval callback has a throwing
\* path: they touch the DOM only).
InvalidContextToggle ==
    (~ctxValid /\ panelManager # 0 /\ ~getPanelContainer(St)) =>
        ~getPanelContainer(toggle(St, panelManager))

\* a host tab that is not selected, while the panel is Visible and observed
HostTabSelectable(t) ==
    /\ Visible(St)
    /\ observers # <<>>
    /\ TAB_SELECTED \notin hostTabs[t].cls

\* the visibility half of C12: the panel is Hidden and the extension's tab
\* deselected after the callback
WatcherHidesPanel ==
    \A t \in HostTabIds :
        HostTabSelectable(t) =>
            LET s == hostSelectsTab(St, t)
            IN  /\ Hidden(s)
                /\ TAB_SELECTED \notin s.reqLink.cls
                /\ s.reqLink.ariaSelected = "false"

\* the timer half of C12: no reconciliation interval is left running
WatcherStopsTimer ==
    \A t \in HostTabIds :
        HostTabSelectable(t) => ~TimerRunning(hostSelectsTab(St, t))

\* C12: when an observed host tab becomes selected while the panel is
\* Visible, the watcher calls hide() in that callback: afterwards the panel
\* is Hidden, the extension's tab is deselected and the reconciliation timer
\* is stopped.
WatcherHides == WatcherHidesPanel /\ WatcherStopsTimer

\* C13: when an observed host tab carries the selected marker while the
\* panel is Visible, the watcher callback also forces that tab back to the
\* deselected base state.
WatcherResetsTab ==
    \A t \in HostTabIds :
        HostTabSelectable(t) =>
            LET s == hostSelectsTab(St, t)
            IN  /\ s.hostTabs[t].cls = BaseClassName
                /\ s.hostTabs[t].ariaSelected = "false"

\* C14: whenever hide() runs on a Visible panel, with the extension's tab
\* present or not, afterwards the host content that show() hid is displayed
\* again, the extension's tab is not selected and the manager's
\* reconciliation timer is stopped.
HideRestores ==
    (Visible(St) /\ panelManager # 0) =>
        LET s == hide(St, panelManager)
        IN  /\ Hidden(s)
            /\ ~s.contentHidden
            /\ TAB_SELECTED \notin s.reqLink.cls
            /\ ~s.managers[panelManager].tabEnforcementInterval

\* what show() by manager m leaves behind
ShowPostcondition(m) ==
    LET s == show(St, m)
    IN  /\ PANEL_VISIBLE \in s.panel.cls
        /\ PANEL_HIDDEN \notin s.panel.cls
        /\ TAB_SELECTED \in s.reqLink.cls
        /\ s.reqLink.ariaSelected = "true"
        /\ s.contentHidden
        /\ \A t \in HostTabIds : s.hostTabs[t].cls = BaseClassName
        /\ s.managers[m].tabEnforcementInterval
        /\ s.managers[m].live > 0

\* show() with the extension's tab in the navigation
ShowEffectsWithTab ==
    \A m \in 1..Len(managers) :
        (getPanelContainer(St) /\ getRequirementsTabLink(St)) =>
            ShowPostcondition(m)

\* manager m's show() is called by the next task: by toggle() from a click
\* on the tab, or by the deferred callback of an earlier toggle()
ShowCalled(m) ==
    \/ requirementsTabExists(St) /\ panelManager = m /\ Hidden(St)
    \/ deferredShow # <<>> /\ Head(deferredShow) = m

\* C15: whenever show() runs on an existing panel container, afterwards the
\* container has the visible marker and not the hidden one, the extension's
\* tab is selected, the host content is hidden, every host tab is deselected
\* and the manager's reconciliation timer is running.
ShowEffects ==
    \A m \in 1..Len(managers) :
        (getPanelContainer(St) /\ ShowCalled(m)) => ShowPostcondition(m)

\* visibility, selection of the extension's tab and manager m's timer
ToggleView(s, m) ==
    << Visible(s), Hidden(s), TAB_SELECTED \in s.reqLink.cls,
       s.managers[m].tabEnforcementInterval >>

\* the first toggle() flips the marker class it reads
ToggleFlips ==
    (getPanelContainer(St) /\ panelManager # 0) =>
        LET s == toggle(St, panelManager)
        IN  /\ Hidden(St) => Visible(s) /\ ~Hidden(s)
            /\ ~Hidden(St) => Hidden(s) /\ ~Visible(s)

\* two toggle() calls restore visibility, selection and timer state
ToggleTwiceRestores ==
    (getPanelContainer(St) /\ panelManager # 0) =>
        LET s == toggle(toggle(St, panelManager), panelManager)
        IN  ToggleView(s, panelManager) = ToggleView(St, panelManager)

\* C16: with a panel container, toggle() flips Hidden and Visible by the
\* container's marker class, and two consecutive toggle() calls return the
\* visibility, the selection of the extension's tab and the timer's state
\* to what they were.
ToggleInvolution == ToggleFlips /\ ToggleTwiceRestores

\* toggle() without a container: a Hidden container and one deferred show
ToggleCreatesAndDefers ==
    (~getPanelContainer(St) /\ panelManager # 0) =>
        LET s == toggle(St, panelManager)
        IN  /\ Hidden(s)
            /\ ~Visible(s)
            /\ s.deferredShow = Append(deferredShow, panelManager)

\* the deferred callback, the container being present: Visible, timer running
DeferredShowShows ==
    (deferredShow # <<>> /\ getPanelContainer(St)) =>
        LET m == Head(deferredShow)
            s == Finish(deferredShowCallback(
                            [St EXCEPT !.deferredShow = Tail(@)], m))
        IN  /\ Visible(s)
            /\ ~Hidden(s)
            /\ s.managers[m].tabEnforcementInterval
            /\ s.managers[m].live > 0

\* C17: toggle() without a panel container creates the panel Hidden and
\* schedules a deferred show; when the deferred callback fires with the
\* container present, the panel is Visible and the reconciliation timer
\* runs.
DeferredShow == ToggleCreatesAndDefers /\ DeferredShowShows

\* toggle() created the container and its deferred callback is pending
DeferredShowWitness ==
    /\ deferredShow # <<>>
    /\ Hidden(St)
    /\ panel.owner = Head(deferredShow)
    /\ ~managers[Head(deferredShow)].tabEnforcementInterval
    /\ Visible(deferredShowCallback(St, Head(deferredShow)))

\* every scheduled attempt of a chain is one of attempts 2..10
RetryBounded ==
    \A i \in 1..Len(retry) :
        retry[i] >= 1 /\ retry[i] < MAX_INJECTION_ATTEMPTS

\* the attempt that runs next, with a attempts made before it by its chain
RetryStep(a) == tryInject([St EXCEPT !.retry = Tail(@)], a)

\* the 10th attempt schedules nothing
RetryGivesUp ==
    \A a \in 0..(MAX_INJECTION_ATTEMPTS - 1) :
        (a + 1 >= MAX_INJECTION_ATTEMPTS) => tryInject(St, a).retry = retry

\* an attempt that finds the navigation bar schedules nothing
RetryStopsAtNavBar ==
    (retry # <<>> /\ getNavBar(St)) => RetryStep(Head(retry)).retry = Tail(retry)

\* C18: for one attemptInjection call tryInject runs at most
\* MAX_INJECTION_ATTEMPTS times; it schedules no further attempt after the
\* first attempt that finds the navigation bar, and none after the 10th
\* failed attempt.
RetryTerminates == RetryBounded /\ RetryGivesUp /\ RetryStopsAtNavBar

\* init() got as far as attemptInjection, an attempt is pending and the host
\* has rendered its navigation bar
NavBarInTime ==
    /\ getNavBar(St)
    /\ retry # <<>>
    /\ panelManager # 0
    /\ ~requirementsTabExists(St)

\* tab injected, panel container Hidden, a watchGitHubTabs observer created
Injected ==
    /\ requirementsTabExists(St)
    /\ Hidden(St)
    /\ observers # <<>>

\* C19: if the navigation bar becomes present before the retry attempts are
\* exhausted (context valid, page managed, permission granted), then
\* eventually the tab is injected, the panel container exists Hidden and the
\* watcher observes the host tabs - unless the page is left first, which
\* sets panelManager to null.
InjectionEventually == NavBarInTime ~> (Injected \/ panelManager = 0)

\* the pending attempt will find the navigation bar and inject
InjectionWitness ==
    /\ NavBarInTime
    /\ Head(retry) >= 1
    /\ requirementsTabExists(RetryStep(Head(retry)))
    /\ Hidden(RetryStep(Head(retry)))

\* init() run in the current state with the extension context c on page u
InitOn(c, u, isBoot) ==
    initStart([St EXCEPT !.ctxValid = c, !.location = u], isBoot)

\* C20: init() aborts with no side effect when the extension context is
\* invalid or the current page is not a managed page: no PanelManager is
\* constructed, no tab or panel is injected, no injection retry is scheduled
\* (and the run is not suspended on the permission check, so nothing follows).
InitAborts ==
    \A c \in BOOLEAN, u \in Urls, isBoot \in BOOLEAN :
        (~c \/ ~isRepoPage(u)) =>
            LET s == InitOn(c, u, isBoot)
            IN  /\ s.managers = managers
                /\ s.panelManager = panelManager
                /\ s.navChildren = navChildren
                /\ s.reqLink = reqLink
                /\ s.panel = panel
                /\ s.retry = retry
                /\ s.initAwait = initAwait
                /\ s.observers = observers

\* the re-initialisation scheduled by a navigation is about to run on a page
\* that is not managed, after the previous page was torn down
InitAbortsWitness ==
    /\ pendingInit > 0
    /\ ~isRepoPage(location)
    /\ panelManager = 0
    /\ managers # <<>>
    /\ initStart([St EXCEPT !.pendingInit = @ - 1], FALSE).initAwait = initAwait

\* C25: getRepoIdentifier returns "segment1/segment2" when the page is a
\* managed page and null when it is not: it returns null exactly when
\* isRepoPage returns false, also when the first segment is excluded.
RepoIdentifierMatchesRepoPage ==
    /\ isRepoPage(location) =>
           getRepoIdentifier(location) = location[1] \o "/" \o location[2]
    /\ ~isRepoPage(location) => getRepoIdentifier(location) = NULL

\* the host has navigated to a page whose first segment is excluded and the
\* navigation observer has stored the identifier of that page
ExcludedPageIdentified ==
    /\ PathMatch(location)
    /\ location[1] \in EXCLUDED_GITHUB_PAGES
    /\ lastUrl = location
    /\ lastRepoId = getRepoIdentifier(location)

ResetApplication(before, after) ==
    /\ \A t \in HostTabIds : after.hostTabs[t] = resetTabState(before.hostTabs[t])
    /\ after.reqLink = before.reqLink

\* what show() of manager m does about the host tabs: the synchronous
\* application, one requestAnimationFrame and one setTimeout scheduled
ShowDeactivation(m) ==
    LET s == show(St, m)
    IN  /\ \A t \in HostTabIds : s.hostTabs[t] = resetTabState(hostTabs[t])
        /\ s.managers[m].pendingRaf = managers[m].pendingRaf + 1
        /\ s.managers[m].pendingTimeout = managers[m].pendingTimeout + 1

\* the two deferred applications, whenever one is pending
DeferredResetApplications ==
    \A m \in 1..Len(managers) :
        (managers[m].pendingRaf > 0 \/ managers[m].pendingTimeout > 0) =>
            ResetApplication(St, resetTabs(St))

\* show() with the extension's tab in the navigation
ShowDeactivatesThriceWithTab ==
    /\ DeferredResetApplications
    /\ \A m \in 1..Len(managers) :
           (getPanelContainer(St) /\ getRequirementsTabLink(St) /\ ShowCalled(m))
               => ShowDeactivation(m)

\* C26: each show() applies the reset-to-base-classes operation three times:
\* synchronously, on the next animation frame and after the fixed timeout;
\* each application resets every host tab and never the extension's own tab.
ShowDeactivatesThrice ==
    /\ DeferredResetApplications
    /\ \A m \in 1..Len(managers) :
           (getPanelContainer(St) /\ ShowCalled(m)) => ShowDeactivation(m)

\* the deferred show() of toggle() is due and the host has taken the
\* extension's tab out of the navigation
ShowWithoutTab ==
    /\ deferredShow # <<>>
    /\ getPanelContainer(St)
    /\ ~getRequirementsTabLink(St)
    /\ show(St, Head(deferredShow)).managers[Head(deferredShow)].pendingRaf
           = managers[Head(deferredShow)].pendingRaf

\* a resetTabs callback scheduled by show() is still pending
ResetPending ==
    \E m \in 1..Len(managers) :
        managers[m].pendingRaf > 0 \/ managers[m].pendingTimeout > 0

\* C27: hide() cancels every deferred callback of the PanelManager: once the
\* panel is Hidden, an animation-frame or timeout reset scheduled by an
\* earlier show() does not deselect any host tab.
HideCancelsResets ==
    (Hidden(St) /\ ResetPending) =>
        \A t \in HostTabIds :
            TAB_SELECTED \in hostTabs[t].cls =>
                TAB_SELECTED \in resetTabs(St).hostTabs[t].cls

\* the watcher has hidden the panel because the host selected its Pull
\* requests tab, and a reset scheduled by show() is still pending
HiddenWithPendingReset ==
    /\ Hidden(St)
    /\ ResetPending
    /\ TAB_SELECTED \in hostTabs["pulls"].cls
    /\ ~contentHidden

\* C28: at most one host-mutation observer is active at any time: it is torn
\* down on navigation teardown and recreated by the next init, so repeated
\* init runs or overlapping retry chains never leave two observers watching
\* the host tabs.
SingleHostTabObserver == Len(observers) <= 1

\* the second init after a navigation has injected again: the observer of
\* the removed PanelManager and the one of the current manager both watch
TwoObserversAfterNavigation ==
    /\ Len(observers) = 2
    /\ panelManager = 2
    /\ managers[1].removed
    /\ observers = <<1, 2>>

\* C29: each PanelManager instance has at most one active reconciliation
\* interval at any time: startTabEnforcement stops a prior interval before it
\* creates a new one, so repeated show() calls without an intervening hide()
\* never leave two intervals running.
OneIntervalPerManager ==
    \A m \in 1..Len(managers) :
        /\ managers[m].live <= 1
        /\ managers[m].live = 1 <=> managers[m].tabEnforcementInterval
        /\ (getPanelContainer(St) /\ ShowCalled(m)) =>
               show(St, m).managers[m].live = 1

\* show() is about to run a second time with no hide() in between: the
\* panel is Visible with its interval running and the deferred show() of an
\* earlier toggle() is due
RepeatedShow ==
    /\ deferredShow # <<>>
    /\ Visible(St)
    /\ managers[Head(deferredShow)].live = 1
    /\ managers[Head(deferredShow)].tabEnforcementInterval

\* the guarded calls the hook can make in the current state
GuardedCalls ==
    { Call("get", <<>>, NULL),
      Call("seed", createSampleRequirements, NULL),
      Call("save", <<>>, NULL),
      Call("save", createSampleRequirements, NULL),
      Call("analysis", requirements, NULL) }

\* C21: safeExtensionCall checks the context before it calls fn: with an
\* invalid context it surfaces the message, returns null and never invokes
\* fn, so nothing is written to storage (and no state is set from the call).
InvalidContextSkipsFn ==
    ~ctxValid =>
        \A c \in GuardedCalls :
            LET h == safeExtensionCall(Hk, c)
            IN  /\ h.alerts = alerts + 1
                /\ h.calls = calls
                /\ h.storage = storage
                /\ h.requirements = requirements
                /\ h.unhandled = unhandled

\* a CRUD call was made after the context became invalid: the message was
\* shown, no call is in flight and storage still holds the loaded list
InvalidContextWitness ==
    /\ ~ctxValid
    /\ clock > 0
    /\ alerts > 0
    /\ calls = <<>>
    /\ requirements # <<>>
    /\ storage = Stored(requirements)

\* C22: if fn throws an error whose message indicates extension-context
\* invalidation, the recovery path is taken (message surfaced, null
\* returned, nothing propagated); an error of any other kind is propagated
\* to the caller and is not turned into null.
ThrownErrorHandling ==
    calls # <<>> =>
        /\ \A e \in {ContextError, WrappedContextError} :
               LET h == safeExtensionCallSettle(Hk, Rejected(e))
               IN  /\ h.alerts = alerts + 1
                   /\ h.unhandled = unhandled
                   /\ h.storage = storage
                   /\ h.requirements = requirements
                   /\ h = Continue([Hk EXCEPT !.calls = Tail(@),
                                              !.alerts = @ + 1],
                                   Head(calls), Null)
        /\ \A e \in {QuotaError, ThrownText} :
               LET h == safeExtensionCallSettle(Hk, Rejected(e))
               IN  /\ h.alerts = alerts
                   /\ h.unhandled = unhandled \cup {e}
                   /\ h = [Hk EXCEPT !.calls = Tail(@),
                                     !.unhandled = @ \cup {e}]

\* fn() of an earlier call has thrown another error, which was propagated,
\* and a call is in flight whose fn() will fail on the invalidated context
ThrownErrorWitness ==
    /\ calls # <<>>
    /\ ~ctxValid
    /\ QuotaError \in unhandled
    /\ alerts = 0
    /\ safeExtensionCallSettle(Hk, Rejected(ContextError)).alerts = 1

\* C23: once the extension context has been invalidated, the refresh notice
\* is surfaced one time only, however many guarded storage operations are
\* attempted afterwards (and none of them is retried).
NoticeShownOnce == alerts <= 1

\* two CRUD calls were made after the invalidation, each refused by the
\* guard, and the notice was shown for each
NoticeShownTwice ==
    /\ ~ctxValid
    /\ clock = 2
    /\ calls = <<>>
    /\ unhandled = {}
    /\ alerts = 2

NoDuplicateIds(reqs) ==
    \A i, j \in 1..Len(reqs) : reqs[i].id = reqs[j].id => i = j

\* C30: requirement IDs are unique: after any sequence of add, update and
\* delete operations, also with an add issued before the save of a previous
\* add has completed, no two requirements in the list (in memory, in
\* storage, or on its way to storage) share an ID.
UniqueRequirementIds ==
    /\ NoDuplicateIds(requirements)
    /\ NoDuplicateIds(storage.list)
    /\ \A k \in 1..Len(calls) : NoDuplicateIds(calls[k].list)
    /\ Ready => NoDuplicateIds(addRequirement(Hk, NULL).requirements)

\* two adds were issued before the save of the first completed: both got
\* the same ID from the same list, in two different lists
OverlappingAdds ==
    /\ Len(calls) = 2
    /\ calls[1].kind = "save" /\ calls[2].kind = "save"
    /\ Len(calls[1].list) = Len(requirements) + 1
    /\ Len(calls[2].list) = Len(requirements) + 1
    /\ calls[1].list[Len(calls[1].list)].id = calls[2].list[Len(calls[2].list)].id
    /\ calls[1].list[Len(calls[1].list)].createdAt = 1
    /\ calls[2].list[Len(calls[2].list)].createdAt = 2

\* a requirement was deleted and another one added after the delete was saved
AddAfterDelete ==
    /\ clock = 2
    /\ Len(requirements) = 2
    /\ Len(calls) = 1
    /\ Len(calls[1].list) = 3
    /\ calls[1].list[3].createdAt = 2

\* children of the navigation list the host may have rendered: the anchor
\* (Pull requests) first, in the middle, last, alone or missing
NavLayouts ==
    { <<>>, <<"code">>, <<"pulls">>, <<"code", "pulls">>, <<"pulls", "more">>,
      <<"code", "more">>, <<"code", "pulls", "more">>, <<"more", "code", "pulls">> }

\* C31: when injectTab inserts the tab and the anchor (Pull requests) tab is
\* among the children of the navigation list, the new tab ends up
\* immediately after the anchor, also when the anchor is the last child;
\* when there is no anchor the tab is appended as the last child.
TabPlacement ==
    \A kids \in NavLayouts :
        LET r == injectTab([St EXCEPT !.navBar = TRUE, !.navChildren = kids,
                                      !.reqLink = NoLink])
            after == r.s.navChildren
            anchor == IndexOf(kids, "pulls")
        IN  /\ r.ret
            /\ Len(after) = Len(kids) + 1
            /\ RemoveFirst(after, REQREV) = kids
            /\ anchor # 0 => after[anchor + 1] = REQREV
            /\ anchor = 0 => after[Len(after)] = REQREV

\* the tab was injected into the rendered navigation, right after the anchor
TabPlacementWitness ==
    /\ requirementsTabExists(St)
    /\ IndexOf(navChildren, "pulls") # 0
    /\ IndexOf(navChildren, REQREV) = IndexOf(navChildren, "pulls") + 1
    /\ Len(navChildren) = Len(NavLayout) + 1

\* states a host tab link can be in: the rendered ones, the current ones and
\* other combinations of the three selection markers
TabStates ==
    {hostTabs[t] : t \in HostTabIds}
    \cup [ cls : { {}, BaseClassName, BaseClassName \cup {TAB_SELECTED},
                   UNDERLINE_NAV_ITEM \cup {TAB_SELECTED}, {TAB_SELECTED} },
           ariaSelected : {"none", "true", "false"},
           ariaCurrent : BOOLEAN ]

\* C32: resetTabState clears all cooperating selection markers together and
\* is idempotent: after one call, from any tab state, the class string is the
\* base class string (no selected class), aria-selected is false and
\* aria-current is absent; a second call changes nothing.
ResetTabStateCanonical ==
    \A tab \in TabStates :
        LET once == resetTabState(tab)
        IN  /\ once.cls = BaseClassName
            /\ TAB_SELECTED \notin once.cls
            /\ once.ariaSelected = "false"
            /\ once.ariaCurrent = FALSE
            /\ resetTabState(once) = once

\* show() has reset the host's current tab: it was rendered with the
\* selected class and aria-current and is in the base state now
ResetTabStateWitness ==
    /\ Visible(St)
    /\ HostTabsRendered["code"].ariaCurrent
    /\ TAB_SELECTED \in HostTabsRendered["code"].cls
    /\ hostTabs["code"] = resetTabState(HostTabsRendered["code"])
    /\ hostTabs["code"] # HostTabsRendered["code"]

\* the state a handler leaves behind, without the mutation records of its task
RecordsDropped(s) == [s EXCEPT !.touched = {}, !.childList = FALSE]

\* the watchGitHubTabs observers processing the records of s change nothing
WatchersChangeNothing(s) ==
    RecordsDropped(RunObservers(s, s.observers, s.touched)) = RecordsDropped(s)

\* the instances whose show() can run: the one the click handler calls
\* toggle() on and those with a pending callback of toggle()
ShowCallers ==
    {m \in 1..Len(managers) :
        m = panelManager \/ \E i \in 1..Len(deferredShow) : deferredShow[i] = m}

\* C33: when the watcher callbacks process the class mutations the extension
\* made itself (show() selecting its own tab and resetting the host tabs, a
\* deferred reset, a reconciliation tick), the panel visibility, the tab
\* selection and the timers are left as the extension's own code set them;
\* selecting the own tab never triggers hide()
SelfMutationsBenign ==
    /\ \A m \in ShowCallers : WatchersChangeNothing(show(St, m))
    /\ WatchersChangeNothing(resetTabs(St))
    /\ WatchersChangeNothing(enforceTabState(St))

SelfMutationsWitness ==
    /\ Visible(St)
    /\ observers # <<>>
    /\ panelManager # 0
    /\ TAB_SELECTED \in reqLink.cls
    /\ REQREV \in show(St, panelManager).touched
    /\ HostTabIds \subseteq enforceTabState(St).touched

\* pages that are not managed: an excluded first segment (two of them with
\* the same first two segments) and a path without an org/repo pair
UnmanagedUrls ==
    {u \in Urls : ~isRepoPage(u)}
        \cup {<<"settings", "profile", "emails">>, <<"orgA">>}

\* the navigation observer handling the change of the URL to u: tab and
\* panel removed, PanelManager discarded, no init() scheduled, and the change
\* from u to a managed page schedules one init()
TeardownWithoutInit(u) ==
    LET s == navCallback([St EXCEPT !.location = u])
    IN  /\ ~requirementsTabExists(s)
        /\ ~getPanelContainer(s)
        /\ s.panelManager = 0
        /\ s.pendingInit = pendingInit
        /\ \A v \in Urls :
              isRepoPage(v) =>
                  navCallback([s EXCEPT !.location = v]).pendingInit
                      = s.pendingInit + 1

\* the part of C34 about leaving a managed page
LeavingManagedPage ==
    \A u \in UnmanagedUrls :
        (boot = "done" /\ location = lastUrl /\ isRepoPage(lastUrl)) =>
            TeardownWithoutInit(u)

\* C34: when the URL changes to a page that is not managed, the controller
\* removes the tab and the panel, discards the PanelManager and schedules no
\* init(); a later change from that page to a managed page schedules init()
NonManagedTeardown ==
    \A u \in UnmanagedUrls :
        (boot = "done" /\ location = lastUrl /\ u # location) =>
            TeardownWithoutInit(u)

\* a managed page with tab, panel and PanelManager, every URL change observed
NonManagedTeardownWitness ==
    /\ boot = "done"
    /\ location = lastUrl
    /\ isRepoPage(location)
    /\ requirementsTabExists(St)
    /\ getPanelContainer(St)
    /\ panelManager # 0
    /\ navCallback([St EXCEPT !.location = <<"settings", "profile">>]).panelManager = 0

\* C35: an init() run suspended at its permission check for identity A never
\* leaves a tab or a panel bound to A on a page of another identity: once
\* the navigation observer has handled every URL change, a panel container
\* in the DOM is bound to the identity of the page shown, and a tab is
\* there only with a PanelManager of that identity
PanelBoundToPageShown ==
    (boot = "done" /\ location = lastUrl) =>
        /\ getPanelContainer(St) => panel.repoId = getRepoIdentifier(location)
        /\ requirementsTabExists(St) =>
              /\ panelManager # 0
              /\ managers[panelManager].repoId = getRepoIdentifier(location)

\* an init() run is suspended for an identity that is not the one of the
\* page shown, and resuming it creates the panel
StaleInitResumes ==
    /\ boot = "done"
    /\ location = lastUrl
    /\ \E i \in 1..Len(initAwait) :
          /\ initAwait[i].repoId # getRepoIdentifier(location)
          /\ getPanelContainer(
                 Finish(initResume([St EXCEPT !.initAwait = DropAt(@, i)],
                                   initAwait[i], TRUE)))

-----------------------------------------------------------------------------
(* Teardown while a deferred show() is pending *)

MaxTeardownNavs == 3

HostPushStateTeardown ==
    \E u \in Urls : navs < MaxTeardownNavs /\ PushState(u)

\* NAVIGATION_REINIT_DELAY is longer than PANEL_CREATION_DELAY: a pending
\* callback of toggle() fires before the init() timer does
InitTimerFiresInOrder ==
    /\ deferredShow = <<>>
    /\ InitTimerFires

NextTeardown ==
    \/ Boot
    \/ InitTimerFiresInOrder
    \/ PermissionResolves
    \/ UserClicksTab
    \/ DeferredShowFires
    \/ RafFires
    \/ ResetTimeoutFires
    \/ DomMutationObserved
    \/ HostRemovesPanel
    \/ HostPushStateTeardown

\* navigation while the host re-renders its content and the user clicks
SpecTeardown == Init /\ [][NextTeardown]_vars

\* C36: after remove() a PanelManager stays uninstalled: the pending callback
\* of its toggle(), whenever it fires, makes no panel container Visible and
\* starts no reconciliation interval on the removed manager
RemovedStaysUninstalled ==
    \A i \in 1..Len(deferredShow) :
        LET m == deferredShow[i]
            s == Finish(deferredShowCallback(
                            [St EXCEPT !.deferredShow = DropAt(@, i)], m))
        IN  managers[m].removed =>
                /\ Visible(s) => Visible(St)
                /\ s.managers[m].live = 0
                /\ ~s.managers[m].tabEnforcementInterval

\* remove() ran on a manager whose deferred show() is still pending
RemovedWithPendingShow ==
    /\ deferredShow # <<>>
    /\ managers[Head(deferredShow)].removed
    /\ managers[Head(deferredShow)].live = 0
    /\ ~getPanelContainer(St)

\* C37: the extension keeps host content hidden only while a panel is
\* Visible: in every state with no Visible panel, also right after a
\* navigation teardown that removed a Visible panel, no host content region
\* is left with display none
HostContentShownWithoutPanel == ~Visible(St) => ~contentHidden

\* a Visible panel hides the host content and the navigation observer is
\* about to tear it down
VisibleBeforeTeardown ==
    /\ Visible(St)
    /\ contentHidden
    /\ boot = "done"
    /\ location # lastUrl
    /\ getRepoIdentifier(location) # lastRepoId
    /\ panelManager # 0
    /\ ~getPanelContainer(navCallback(St))

\* every PanelManager was constructed by an init() run whose permission check
\* resolved to true for the identity it holds: these are the identities granted
GrantedIdentities == {managers[m].repoId : m \in 1..Len(managers)}

\* an init() run whose permission check resolves to false constructs no
\* PanelManager and starts no injection attempt
DeniedInitDoesNothing ==
    \A i \in 1..Len(initAwait) :
        LET s0 == [St EXCEPT !.initAwait = DropAt(@, i)]
        IN  Finish(initResume(s0, initAwait[i], FALSE)) = s0

\* no tab and no panel before some permission check resolved to true
InjectionAfterSomeGrant ==
    (requirementsTabExists(St) \/ getPanelContainer(St)) => managers # <<>>

\* C38: a tab or a panel is on a page only after shouldShowRequirementsTab
\* resolved to true for the org/repo of that page; when it resolves to
\* false, init() constructs no PanelManager and starts no injection attempt
PermissionGating ==
    /\ DeniedInitDoesNothing
    /\ (boot = "done" /\ location = lastUrl) =>
          ((requirementsTabExists(St) \/ getPanelContainer(St)) =>
               getRepoIdentifier(location) \in GrantedIdentities)

\* the permission check of a run is about to resolve on a page without tab
\* and panel, and with true the run injects both
PermissionPending ==
    /\ initAwait # <<>>
    /\ ~requirementsTabExists(St)
    /\ ~getPanelContainer(St)
    /\ LET s == Finish(initResume([St EXCEPT !.initAwait = Tail(@)],
                                  Head(initAwait), TRUE))
       IN  requirementsTabExists(s) /\ getPanelContainer(s)

Listed(list, req) == \E i \in 1..Len(list) : list[i] = req

\* both saves pending in h succeed, the older one first
BothSavesSucceed(h) ==
    safeExtensionCallSettle(safeExtensionCallSettle(h, Resolved), Resolved)

\* the requirement req returned by addRequirement is in the in-memory list
\* and in the persisted list of h
Kept(h, req) ==
    /\ Listed(h.requirements, req)
    /\ h.storage.isArray
    /\ Listed(h.storage.list, req)

\* an add whose save succeeds before anything else is issued is kept
SingleAddKept ==
    (Ready /\ ctxValid /\ calls = <<>>) =>
        \A d \in {NULL, "text"} :
            LET h1 == addRequirement(Hk, d)
                newReq == Head(h1.calls).list[Len(requirements) + 1]
            IN  Kept(safeExtensionCallSettle(h1, Resolved), newReq)

\* C39: no completed add is lost: a requirement returned by addRequirement
\* is in the in-memory list and in the persisted list until it is deleted,
\* also when a second add, an update or a delete (of another requirement) is
\* issued before the save of the first add has updated the state
NoLostAdd ==
    (Ready /\ ctxValid /\ calls = <<>>) =>
        \A d \in {NULL, "text"} :
            LET h1 == addRequirement(Hk, d)
                newReq == Head(h1.calls).list[Len(requirements) + 1]
            IN  /\ Kept(safeExtensionCallSettle(h1, Resolved), newReq)
                /\ \A d2 \in {NULL, "text"} :
                      Kept(BothSavesSucceed(addRequirement(h1, d2)), newReq)
                /\ \A id \in ListedIds :
                      /\ Kept(BothSavesSucceed(updateRequirement(h1, id, "text")),
                              newReq)
                      /\ Kept(BothSavesSucceed(deleteRequirement(h1, id)), newReq)

\* a second add was issued while the save of the first is pending, and its
\* list does not hold the requirement the first add returned
SecondAddBeforeSave ==
    /\ Len(calls) = 2
    /\ calls[1].kind = "save" /\ calls[2].kind = "save"
    /\ Len(calls[1].list) = Len(requirements) + 1
    /\ Len(calls[2].list) = Len(requirements) + 1
    /\ ~Listed(calls[2].list, calls[1].list[Len(calls[1].list)])
    /\ ~Kept(BothSavesSucceed(Hk), calls[1].list[Len(calls[1].list)])

\* C40: a reconciliation tick changes nothing unless the panel container
\* exists with the visible marker and the extension's tab is present: with
\* the panel Hidden or absent a tick leaves every host tab, the extension's
\* tab and the panel as they are; and no tick changes the panel's visibility
TickFrame ==
    LET e == enforceTabState(St)
        t == intervalCallback(St)
    IN  /\ ~(Visible(St) /\ getRequirementsTabLink(St)) =>
              /\ e = St
              /\ t.hostTabs = hostTabs
              /\ t.reqLink = reqLink
              /\ t.navChildren = navChildren
              /\ t.panel = panel
        /\ e.panel = panel
        /\ t.panel = panel

\* the interval of a PanelManager is running while the panel is Hidden and
\* the host shows one of its tabs as selected
TickWhileHidden ==
    /\ Hidden(St)
    /\ TimerRunning(St)
    /\ getRequirementsTabLink(St)
    /\ SelectedHostTabs(St) # {}

====
